---- MODULE Spec2Model ----
(***************************************************************************)
(* Model of node/src/chain_spec.rs: the seed-derived identities, the two   *)
(* chain presets (development_config, local_testnet_config) and the        *)
(* genesis assembler testnet_genesis.                                      *)
(*                                                                         *)
(* Option<T> is modelled as a tuple: <<>> is None, <<v>> is Some(v).       *)
(* Result<T, E> is <<"Ok", v>> or <<"Err", e>>.                            *)
(* Vec<T> is a sequence, BTreeMap<K, V> a function on its key set.         *)
(* u128 / U256 values are little-endian sequences of 15-bit limbs (9 and   *)
(* 18 limbs), because 2^60 and the EVM balance do not fit a machine int.   *)
(***************************************************************************)
EXTENDS Integers, Sequences, FiniteSets, TLC

VARIABLES WASM_BINARY, ret, genesis, built, calls, args

vars == <<WASM_BINARY, ret, genesis, built, calls, args>>

----------------------------------------------------------------------------
(* Bounds of the model *)

MaxPayload == 2
MaxCalls == 3
MaxValidators == 2
MaxEndowed == 3

PayloadBytes == {0, 255}
AsmValidatorLabels == {"Alice", "Bob"}
AsmEndowedLabels == {"Alice", "Bob"}
AsmRootLabels == {"Alice", "Charlie"}

SeqsUpTo(S, n) == UNION {[1..k -> S] : k \in 0..n}

----------------------------------------------------------------------------
(* Option / Result *)

None == <<>>
Some(v) == <<v>>
is_some(o) == Len(o) = 1

Ok(v) == <<"Ok", v>>
Err(e) == <<"Err", e>>
is_ok(r) == Len(r) = 2 /\ r[1] = "Ok"
is_err(r) == Len(r) = 2 /\ r[1] = "Err"

Panic == <<"panic">>

ok_or(o, e) == IF is_some(o) THEN Ok(o[1]) ELSE Err(e)
unwrap(r) == IF is_ok(r) THEN r[2] ELSE Panic

----------------------------------------------------------------------------
(* Fixed-width unsigned integers as limb sequences *)

LimbBase == 2^15

Wrap128(x) == [x EXCEPT ![9] = @ % (2^8)]

U128(n) == [i \in 1..9 |-> IF i = 1 THEN n ELSE 0]

RECURSIVE MulAdd(_, _, _)
MulAdd(x, m, c) ==
    IF x = <<>> THEN <<>>
    ELSE LET t == Head(x) * m + c
         IN  <<t % LimbBase>> \o MulAdd(Tail(x), m, t \div LimbBase)

RECURSIVE ParseDec(_, _)
ParseDec(digits, acc) ==
    IF digits = <<>> THEN acc
    ELSE ParseDec(Tail(digits), Wrap128(MulAdd(acc, 10, Head(digits))))

Shl(x, n) ==
    LET q == n \div 15
        p == 2^(n % 15)
        at(i) == IF i >= 1 /\ i <= Len(x) THEN x[i] ELSE 0
    IN  Wrap128([i \in 1..Len(x) |->
                   ((at(i - q) * p) % LimbBase) + ((at(i - q - 1) * p) \div LimbBase)])

U256_from_u128(x) == x \o [i \in 1..9 |-> 0]
U256_from_int(n) == [i \in 1..18 |-> IF i = 1 THEN n ELSE 0]

----------------------------------------------------------------------------
(* H160::from_str: 40 hexadecimal characters to 20 bytes *)

HexChars == << {"0"}, {"1"}, {"2"}, {"3"}, {"4"}, {"5"}, {"6"}, {"7"},
               {"8"}, {"9"}, {"a", "A"}, {"b", "B"}, {"c", "C"}, {"d", "D"},
               {"e", "E"}, {"f", "F"} >>

IsHex(c) == \E i \in 1..16 : c \in HexChars[i]
HexVal(c) == (CHOOSE i \in 1..16 : c \in HexChars[i]) - 1

H160_from_str(s) ==
    IF Len(s) = 40 /\ \A i \in 1..Len(s) : IsHex(s[i])
    THEN Ok([i \in 1..20 |-> HexVal(s[2 * i - 1]) * 16 + HexVal(s[2 * i])])
    ELSE Err("Invalid input length")

----------------------------------------------------------------------------
(* Seed derivation *)

get_from_seed(TPublic, seed) ==
    [scheme |-> TPublic, phrase |-> "//" \o seed]

get_account_id_from_seed(TPublic, seed) ==
    [account |-> get_from_seed(TPublic, seed)]

authority_keys_from_seed(s) ==
    <<get_from_seed("AuraId", s), get_from_seed("GrandpaId", s)>>

----------------------------------------------------------------------------
(* testnet_genesis and the sections it fills *)

EvmAddressLiteral ==
    << "6","B","e","0","2","d","1","d","3","6","6","5","6","6","0","d","2","2",
       "F","F","9","6","2","4","b","7","B","E","0","5","5","1","e","e","1","A",
       "c","9","1","b" >>

EvmBalanceLiteral ==
    << 1,2,3,4,5,6, 1,2,3, 0,0,0, 0,0,0, 0,0,0, 0,0,0, 0,0,0 >>

BTreeMap_new == <<>>
BTreeMap_insert(m, k, v) ==
    [x \in (DOMAIN m) \cup {k} |-> IF x = k THEN v ELSE m[x]]

alice_evm_account_id == unwrap(H160_from_str(EvmAddressLiteral))

(* Variant: the EVM account is funded with the Balances endowment instead   *)
(* of its own literal.                                                     *)
evm_GenesisAccount_endowed ==
    [ nonce   |-> U256_from_int(0),
      balance |-> U256_from_u128(Shl(U128(1), 60)),
      storage |-> BTreeMap_new,
      code    |-> <<>> ]

evm_GenesisAccount ==
    [ nonce   |-> U256_from_int(0),
      balance |-> U256_from_u128(ParseDec(EvmBalanceLiteral, U128(0))),
      storage |-> BTreeMap_new,
      code    |-> <<>> ]

evm_accounts ==
    BTreeMap_insert(BTreeMap_new, alice_evm_account_id, evm_GenesisAccount)

(* Variant: the shift amount loses a digit. *)
endowment_short == Shl(U128(1), 6)

endowment == Shl(U128(1), 60)

RECURSIVE LastWins(_)
LastWins(s) ==
    IF s = <<>> THEN <<>>
    ELSE IF \E j \in 2..Len(s) : s[j] = s[1]
         THEN LastWins(Tail(s))
         ELSE <<s[1]>> \o LastWins(Tail(s))

(* Variant: the pairs are collected into a unique-key map. *)
balances_collect_map(endowed_accounts) ==
    [i \in 1..Len(LastWins(endowed_accounts)) |->
        <<LastWins(endowed_accounts)[i], Shl(U128(1), 60)>>]

(* Variant: the iterator skips the first account. *)
balances_collect_skip(endowed_accounts) ==
    [i \in 1..(Len(endowed_accounts) - 1) |->
        <<endowed_accounts[i + 1], Shl(U128(1), 60)>>]

(* BalancesConfig.balances is a Vec<(AccountId, Balance)>: collect() keeps *)
(* one pair per element of endowed_accounts, in order.                     *)
balances_collect(endowed_accounts) ==
    [i \in 1..Len(endowed_accounts) |-> <<endowed_accounts[i], endowment>>]

aura_authorities(initial_authorities) ==
    [i \in 1..Len(initial_authorities) |-> initial_authorities[i][1]]

(* Variant: the finality authorities come out in reverse order. *)
grandpa_authorities_rev(initial_authorities) ==
    [i \in 1..Len(initial_authorities) |->
        <<initial_authorities[Len(initial_authorities) + 1 - i][2], 1>>]

grandpa_authorities(initial_authorities) ==
    [i \in 1..Len(initial_authorities) |-> <<initial_authorities[i][2], 1>>]

(* Variant: an empty payload is rejected and no section is filled. *)
testnet_genesis_reject(wasm_binary, initial_authorities, root_key, endowed_accounts, enable_println) ==
    IF wasm_binary = <<>>
    THEN [ system |-> None, balances |-> None, aura |-> None, grandpa |-> None,
           sudo |-> None, evm |-> None, ethereum |-> None,
           collective_Instance1 |-> None, pallet_session |-> None,
           staking |-> None ]
    ELSE [ system   |-> Some([code |-> wasm_binary, changes_trie_config |-> None]),
           balances |-> Some([balances |-> balances_collect(endowed_accounts)]),
           aura     |-> Some([authorities |-> aura_authorities(initial_authorities)]),
           grandpa  |-> Some([authorities |-> grandpa_authorities(initial_authorities)]),
           sudo     |-> Some([key |-> root_key]),
           evm      |-> Some([accounts |-> evm_accounts]),
           ethereum |-> Some("EthereumConfig"),
           collective_Instance1 |-> Some([members |-> <<>>]),
           pallet_session |-> None,
           staking  |-> None ]

(* Variant: the session section is default-constructed instead of absent. *)
testnet_genesis_session(wasm_binary, initial_authorities, root_key, endowed_accounts, enable_println) ==
    [ system   |-> Some([code |-> wasm_binary, changes_trie_config |-> None]),
      balances |-> Some([balances |-> balances_collect(endowed_accounts)]),
      aura     |-> Some([authorities |-> aura_authorities(initial_authorities)]),
      grandpa  |-> Some([authorities |-> grandpa_authorities(initial_authorities)]),
      sudo     |-> Some([key |-> root_key]),
      evm      |-> Some([accounts |-> evm_accounts]),
      ethereum |-> Some("EthereumConfig"),
      collective_Instance1 |-> Some([members |-> <<>>]),
      pallet_session |-> Some([keys |-> <<>>]),
      staking  |-> None ]

testnet_genesis(wasm_binary, initial_authorities, root_key, endowed_accounts, enable_println) ==
    [ system   |-> Some([code |-> wasm_binary, changes_trie_config |-> None]),
      balances |-> Some([balances |-> balances_collect(endowed_accounts)]),
      aura     |-> Some([authorities |-> aura_authorities(initial_authorities)]),
      grandpa  |-> Some([authorities |-> grandpa_authorities(initial_authorities)]),
      sudo     |-> Some([key |-> root_key]),
      evm      |-> Some([accounts |-> evm_accounts]),
      ethereum |-> Some("EthereumConfig"),
      collective_Instance1 |-> Some([members |-> <<>>]),
      pallet_session |-> None,
      staking  |-> None ]

----------------------------------------------------------------------------
(* The presets: arguments handed to testnet_genesis by each stored closure *)

development_authorities == << authority_keys_from_seed("Alice") >>

development_root == get_account_id_from_seed("sr25519::Public", "Alice")

development_endowed ==
    << get_account_id_from_seed("sr25519::Public", "Alice"),
       get_account_id_from_seed("sr25519::Public", "Bob"),
       get_account_id_from_seed("sr25519::Public", "Alice//stash"),
       get_account_id_from_seed("sr25519::Public", "Bob//stash") >>

(* Variant: the development authority list is used for the local testnet. *)
local_testnet_authorities_single == << authority_keys_from_seed("Alice") >>

local_testnet_authorities ==
    << authority_keys_from_seed("Alice"),
       authority_keys_from_seed("Bob") >>

local_testnet_root == get_account_id_from_seed("sr25519::Public", "Alice")

local_testnet_endowed ==
    << get_account_id_from_seed("sr25519::Public", "Alice"),
       get_account_id_from_seed("sr25519::Public", "Bob"),
       get_account_id_from_seed("sr25519::Public", "Charlie"),
       get_account_id_from_seed("sr25519::Public", "Dave"),
       get_account_id_from_seed("sr25519::Public", "Eve"),
       get_account_id_from_seed("sr25519::Public", "Ferdie"),
       get_account_id_from_seed("sr25519::Public", "Alice//stash"),
       get_account_id_from_seed("sr25519::Public", "Bob//stash"),
       get_account_id_from_seed("sr25519::Public", "Charlie//stash"),
       get_account_id_from_seed("sr25519::Public", "Dave//stash"),
       get_account_id_from_seed("sr25519::Public", "Eve//stash"),
       get_account_id_from_seed("sr25519::Public", "Ferdie//stash") >>

(* Arguments of one testnet_genesis call *)
Args(w, a, r, e, p) ==
    [ wasm_binary |-> w, initial_authorities |-> a, root_key |-> r,
      endowed_accounts |-> e, enable_println |-> p ]

(* The closure `move || testnet_genesis(wasm_binary, ...)`: it captures    *)
(* wasm_binary; its body builds the other arguments when it is called.     *)
closure_args(c) ==
    IF c.body = "development_config"
    THEN Args(c.wasm_binary, development_authorities, development_root,
              development_endowed, TRUE)
    ELSE Args(c.wasm_binary, local_testnet_authorities, local_testnet_root,
              local_testnet_endowed, TRUE)

apply_genesis(a) ==
    testnet_genesis(a.wasm_binary, a.initial_authorities, a.root_key,
                    a.endowed_accounts, a.enable_println)

from_genesis(name, id, chain_type, constructor) ==
    [ name |-> name, id |-> id, chain_type |-> chain_type,
      genesis |-> constructor, boot_nodes |-> <<>>, telemetry_endpoints |-> None,
      protocol_id |-> None, properties |-> None, extensions |-> None ]

----------------------------------------------------------------------------
(* State machine of the presets and of the consumer of a descriptor *)

Payloads == SeqsUpTo(PayloadBytes, MaxPayload)

Init ==
    /\ WASM_BINARY \in {None} \cup {Some(w) : w \in Payloads}
    /\ ret = <<>>
    /\ genesis = None
    /\ built = <<>>
    /\ calls = 0
    /\ args = None

(* Variant: an absent payload is replaced by an empty one. *)
development_config_default ==
    /\ ret' = Ok(from_genesis("Development", "dev", "Development",
                     [body |-> "development_config",
                      wasm_binary |-> IF is_some(WASM_BINARY)
                                      THEN WASM_BINARY[1] ELSE <<>>]))
    /\ built' = <<>>
    /\ UNCHANGED <<WASM_BINARY, genesis, calls, args>>

(* Variant: the genesis state is computed while the descriptor is built. *)
development_config_eager ==
    LET wasm_binary == ok_or(WASM_BINARY, "Development wasm binary not available")
    IN  IF is_err(wasm_binary)
        THEN /\ ret' = wasm_binary
             /\ built' = <<>>
             /\ UNCHANGED <<WASM_BINARY, genesis, calls, args>>
        ELSE /\ calls < MaxCalls
             /\ ret' = Ok(from_genesis("Development", "dev", "Development",
                              [body |-> "development_config",
                               wasm_binary |-> unwrap(wasm_binary)]))
             /\ args' = Some(Args(unwrap(wasm_binary), development_authorities,
                                  development_root, development_endowed, TRUE))
             /\ genesis' = Some(apply_genesis(args'[1]))
             /\ built' = <<>>
             /\ calls' = calls + 1
             /\ UNCHANGED WASM_BINARY

development_config ==
    LET wasm_binary == ok_or(WASM_BINARY, "Development wasm binary not available")
    IN  /\ ret' = IF is_err(wasm_binary) THEN wasm_binary
                  ELSE Ok(from_genesis("Development", "dev", "Development",
                             [body |-> "development_config",
                              wasm_binary |-> unwrap(wasm_binary)]))
        /\ built' = <<>>
        /\ UNCHANGED <<WASM_BINARY, genesis, calls, args>>

local_testnet_config ==
    LET wasm_binary == ok_or(WASM_BINARY, "Development wasm binary not available")
    IN  /\ ret' = IF is_err(wasm_binary) THEN wasm_binary
                  ELSE Ok(from_genesis("Local Testnet", "local_testnet", "Local",
                             [body |-> "local_testnet_config",
                              wasm_binary |-> unwrap(wasm_binary)]))
        /\ built' = <<>>
        /\ UNCHANGED <<WASM_BINARY, genesis, calls, args>>

(* The consumer calls the genesis function stored in the descriptor. *)
build_storage ==
    /\ is_ok(ret)
    /\ calls < MaxCalls
    /\ LET a == closure_args(ret[2].genesis)
           g == apply_genesis(a)
       IN  /\ args' = Some(a)
           /\ genesis' = Some(g)
           /\ built' = Append(built, g)
    /\ calls' = calls + 1
    /\ UNCHANGED <<WASM_BINARY, ret>>

Next == development_config \/ local_testnet_config \/ build_storage

Spec == Init /\ [][Next]_vars

----------------------------------------------------------------------------
(* The assembler as a pure function of bounded inputs *)

InitAsm ==
    /\ WASM_BINARY = None
    /\ ret = <<>>
    /\ genesis = None
    /\ built = <<>>
    /\ calls = 0
    /\ \E w \in Payloads,
          v \in SeqsUpTo(AsmValidatorLabels, MaxValidators),
          r \in AsmRootLabels,
          e \in SeqsUpTo(AsmEndowedLabels, MaxEndowed),
          p \in BOOLEAN :
          args = Some(Args(w,
                           [i \in 1..Len(v) |-> authority_keys_from_seed(v[i])],
                           get_account_id_from_seed("sr25519::Public", r),
                           [i \in 1..Len(e) |->
                               get_account_id_from_seed("sr25519::Public", e[i])],
                           p))

Assemble ==
    /\ calls = 0
    /\ genesis' = Some(apply_genesis(args[1]))
    /\ built' = Append(built, apply_genesis(args[1]))
    /\ calls' = calls + 1
    /\ UNCHANGED <<WASM_BINARY, ret, args>>

NextAsm == Assemble

SpecAsm == InitAsm /\ [][NextAsm]_vars

----------------------------------------------------------------------------
(* Expected values, written out independently of the operators above *)

TwoPow60 == <<0, 0, 0, 0, 1, 0, 0, 0, 0>>

EvmBalanceExpected ==
    <<0, 6335, 10165, 3847, 8777, 3, 0, 0, 0, 0, 0, 0, 0, 0, 0, 0, 0, 0>>

U256Zero == <<0, 0, 0, 0, 0, 0, 0, 0, 0, 0, 0, 0, 0, 0, 0, 0, 0, 0>>

EvmAddressExpected ==
    <<107, 224, 45, 29, 54, 101, 102, 13, 34, 255,
      150, 36, 183, 190, 5, 81, 238, 26, 201, 27>>

AccountOf(phrase) == [account |-> [scheme |-> "sr25519::Public", phrase |-> phrase]]
AuraOf(phrase) == [scheme |-> "AuraId", phrase |-> phrase]
GrandpaOf(phrase) == [scheme |-> "GrandpaId", phrase |-> phrase]

SixLabels == <<"//Alice", "//Bob", "//Charlie", "//Dave", "//Eve", "//Ferdie">>

(* The last GenesisState was produced by the descriptor currently held. *)
Produced == is_ok(ret) /\ built # <<>> /\ is_some(genesis)
FromDevelopment == Produced /\ ret[2].id = "dev"
FromLocalTestnet == Produced /\ ret[2].id = "local_testnet"

G == genesis[1]
A == args[1]
BalancesOfG == G.balances[1].balances
AuraOfG == G.aura[1].authorities
GrandpaOfG == G.grandpa[1].authorities
Assembled == calls > 0 /\ is_some(genesis) /\ is_some(args)

----------------------------------------------------------------------------
(* C1 (as stated): the state built by local_testnet_config has exactly 6   *)
(* block authorities and 6 finality authorities, for Alice .. Ferdie in    *)
(* that order, and exactly 12 Balances entries.                            *)
C1_SixValidators ==
    FromLocalTestnet =>
        /\ AuraOfG = [i \in 1..6 |-> AuraOf(SixLabels[i])]
        /\ GrandpaOfG = [i \in 1..6 |-> <<GrandpaOf(SixLabels[i]), 1>>]
        /\ Len(BalancesOfG) = 12

(* C1 (amended): the state built by local_testnet_config has exactly 2     *)
(* block authorities and 2 finality authorities of weight 1, for Alice and *)
(* Bob in that order, and exactly 12 Balances entries: the six labels      *)
(* Alice .. Ferdie followed by their six //stash variants.                 *)
C1_TwoValidators ==
    FromLocalTestnet =>
        /\ AuraOfG = <<AuraOf("//Alice"), AuraOf("//Bob")>>
        /\ GrandpaOfG = << <<GrandpaOf("//Alice"), 1>>, <<GrandpaOf("//Bob"), 1>> >>
        /\ Len(BalancesOfG) = 12
        /\ \A i \in 1..6 :
              /\ BalancesOfG[i][1] = AccountOf(SixLabels[i])
              /\ BalancesOfG[i + 6][1] = AccountOf(SixLabels[i] \o "//stash")
        /\ Cardinality({BalancesOfG[i][1] : i \in 1..12}) = 12

C1_Witness == FromLocalTestnet /\ Len(AuraOfG) = 2 /\ Len(BalancesOfG) = 12

(* C2 (as stated): a GenesisState whose System code is the empty byte      *)
(* sequence is never produced: an empty payload makes assembly fail and    *)
(* leaves no section observable.                                           *)
C2_EmptyPayloadRejected ==
    (is_some(args) /\ A.wasm_binary = <<>>) =>
        /\ genesis = None
        /\ \A i \in DOMAIN built : built[i].system # Some([code |-> <<>>,
                                              changes_trie_config |-> None])

(* C2 (amended): the assembler performs no payload check and cannot fail:  *)
(* given a payload of length zero it returns a GenesisState whose System   *)
(* code is the empty byte sequence, with the Balances, authorities, Sudo   *)
(* and EvmAccounts sections filled as for any other payload.               *)
C2_EmptyPayloadAssembled ==
    (calls > 0 /\ is_some(args) /\ A.wasm_binary = <<>>) =>
        /\ is_some(genesis)
        /\ G.system = Some([code |-> <<>>, changes_trie_config |-> None])
        /\ is_some(G.balances) /\ is_some(G.aura) /\ is_some(G.grandpa)
        /\ is_some(G.sudo) /\ is_some(G.evm)

C2_Witness ==
    /\ Assembled /\ A.wasm_binary = <<>>
    /\ WASM_BINARY = Some(<<>>)
    /\ G.system[1].code = <<>>

(* C3: the state built by development_config has exactly 1 block authority *)
(* and 1 finality authority of weight 1, both derived from Alice; Sudo is  *)
(* Alice's account; Balances has exactly 4 entries (Alice, Bob,            *)
(* Alice//stash, Bob//stash), each with balance 2^60.                      *)
C3_Development ==
    FromDevelopment =>
        /\ AuraOfG = <<AuraOf("//Alice")>>
        /\ GrandpaOfG = << <<GrandpaOf("//Alice"), 1>> >>
        /\ G.sudo = Some([key |-> AccountOf("//Alice")])
        /\ BalancesOfG = << <<AccountOf("//Alice"), TwoPow60>>,
                            <<AccountOf("//Bob"), TwoPow60>>,
                            <<AccountOf("//Alice//stash"), TwoPow60>>,
                            <<AccountOf("//Bob//stash"), TwoPow60>> >>

C3_Witness == FromDevelopment /\ Len(BalancesOfG) = 4 /\ Len(AuraOfG) = 1

(* C4: when WASM_BINARY is None, every call of development_config or       *)
(* local_testnet_config returns the string error and no descriptor, and    *)
(* the genesis assembler is never invoked.                                 *)
C4_AbsentPayload ==
    WASM_BINARY = None =>
        /\ ret # <<>> =>
              (is_err(ret) /\ ret[2] = "Development wasm binary not available")
        /\ calls = 0 /\ genesis = None /\ built = <<>> /\ args = None

C4_Witness == WASM_BINARY = None /\ is_err(ret)

(* C5: BlockAuthorities is the list of block-authority halves of the input *)
(* validators in input order, FinalityAuthorities the list of (finality    *)
(* half, 1) in input order; both have the length of the input list, and at *)
(* each index both keys come from the same validator (the same phrase).    *)
C5_AuthoritiesProjection ==
    Assembled =>
        /\ Len(AuraOfG) = Len(A.initial_authorities)
        /\ Len(GrandpaOfG) = Len(A.initial_authorities)
        /\ \A i \in 1..Len(A.initial_authorities) :
              /\ AuraOfG[i] = A.initial_authorities[i][1]
              /\ GrandpaOfG[i] = <<A.initial_authorities[i][2], 1>>
              /\ AuraOfG[i].phrase = GrandpaOfG[i][1].phrase

C5_Witness ==
    /\ Assembled
    /\ Len(A.initial_authorities) = 2
    /\ A.initial_authorities[1] # A.initial_authorities[2]
    /\ Len(GrandpaOfG) = 2

(* C6: the accounts in the Balances section are exactly the accounts of    *)
(* the endowed list, every entry carries the balance 2^60, and the root    *)
(* account receives a balance only if it is in the endowed list.           *)
C6_BalancesExactlyEndowed ==
    Assembled =>
        /\ {BalancesOfG[i][1] : i \in DOMAIN BalancesOfG}
              = {A.endowed_accounts[i] : i \in DOMAIN A.endowed_accounts}
        /\ \A i \in DOMAIN BalancesOfG : BalancesOfG[i][2] = TwoPow60

C6_Witness ==
    /\ Assembled
    /\ Len(A.endowed_accounts) >= 2
    /\ \A i \in DOMAIN A.endowed_accounts : A.endowed_accounts[i] # A.root_key
    /\ \A i \in DOMAIN BalancesOfG : BalancesOfG[i][1] # A.root_key

(* C7: every state built by a preset has exactly one EvmAccounts entry,    *)
(* keyed by the 20 bytes 6Be02d1d3665660d22FF9624b7BE0551ee1Ac91b, with    *)
(* nonce 0, balance 123456123000000000000000, empty storage, empty code.   *)
C7_EvmAccount ==
    Produced =>
        /\ DOMAIN G.evm[1].accounts = {EvmAddressExpected}
        /\ G.evm[1].accounts[EvmAddressExpected] =
              [ nonce |-> U256Zero, balance |-> EvmBalanceExpected,
                storage |-> <<>>, code |-> <<>> ]

C7_Witness ==
    FromLocalTestnet /\ Cardinality(DOMAIN G.evm[1].accounts) = 1 /\ calls >= 2

(* C8 (as stated): with duplicates in the endowed list, Balances holds one *)
(* entry per distinct account, so its size is the number of distinct       *)
(* accounts of the list.                                                   *)
C8_OneEntryPerAccount ==
    Assembled =>
        Len(BalancesOfG) =
            Cardinality({A.endowed_accounts[i] : i \in DOMAIN A.endowed_accounts})

(* C8 (amended): Balances holds one entry per element of the endowed list, *)
(* in input order, duplicates included, so its size is the length of the   *)
(* list.                                                                   *)
C8_OneEntryPerElement ==
    Assembled =>
        /\ Len(BalancesOfG) = Len(A.endowed_accounts)
        /\ \A i \in DOMAIN A.endowed_accounts :
              BalancesOfG[i][1] = A.endowed_accounts[i]

C8_Witness ==
    /\ Assembled
    /\ \E i, j \in DOMAIN A.endowed_accounts :
          i < j /\ A.endowed_accounts[i] = A.endowed_accounts[j]
    /\ \E i, j \in DOMAIN BalancesOfG :
          i < j /\ BalancesOfG[i][1] = BalancesOfG[j][1]

(* C9: a step that builds a descriptor does not run the assembler; the     *)
(* assembler runs only in a step that calls the function stored in a held  *)
(* descriptor; all states that one descriptor's function returns are equal.*)
C9_Lazy ==
    [][ /\ (ret' # ret \/ built' = <<>>) => (calls' = calls /\ genesis' = genesis)
        /\ (calls' # calls \/ genesis' # genesis) =>
              (is_ok(ret) /\ ret' = ret /\ calls' = calls + 1
                 /\ built' = Append(built, genesis'[1]))
        /\ \A i, j \in DOMAIN built' : built'[i] = built'[j] ]_vars

C9_Witness == is_ok(ret) /\ Len(built) >= 2 /\ built[1] = built[2]

(* C10: every assembled state has System carrying the payload unchanged,   *)
(* Balances, BlockAuthorities, FinalityAuthorities, Sudo equal to the root *)
(* argument, EvmAccounts, the Ethereum marker and the default-empty        *)
(* council section present, and the session and staking sections absent.   *)
C10_Sections ==
    Assembled =>
        /\ G.system = Some([code |-> A.wasm_binary, changes_trie_config |-> None])
        /\ is_some(G.balances) /\ is_some(G.aura) /\ is_some(G.grandpa)
        /\ G.sudo = Some([key |-> A.root_key])
        /\ is_some(G.evm)
        /\ is_some(G.ethereum)
        /\ G.collective_Instance1 = Some([members |-> <<>>])
        /\ G.pallet_session = None
        /\ G.staking = None
        /\ DOMAIN G = {"system", "balances", "aura", "grandpa", "sudo", "evm",
                       "ethereum", "collective_Instance1", "pallet_session",
                       "staking"}

C10_Witness ==
    /\ Assembled
    /\ Len(A.wasm_binary) >= 1
    /\ G.system[1].code = A.wasm_binary
    /\ A.endowed_accounts = <<>>
    /\ G.pallet_session = None

====
